---- MODULE Spec2Model ----
(***************************************************************************)
(* Screenshot MCP server: the window-discovery cascade                     *)
(* (core/windowDetection.js) and the capture service with its history ring *)
(* (core/screenshotManager.js).                                            *)
(*                                                                         *)
(* Text is modelled after tokenisation: a stdout is a sequence of lines, a *)
(* line the sequence of its '|'-separated fields, a field a string.        *)
(* JavaScript's undefined and NaN are the values Undefined and NaN.        *)
(***************************************************************************)
EXTENDS Integers, Sequences, FiniteSets, TLC

\* ---------------------------------------------------------------- bounds
\* Concurrent getWindowList calls.
NumCalls == 2
\* Lines in one output of an OS facility.
MaxLines == 2

Calls == 1..NumCalls

\* ------------------------------------------------------ JavaScript values
Undefined == "<undefined>"
NaN == <<"NaN", 0>>
Num(n) == <<"num", n>>

\* parseInt(s, 10) on the field vocabulary of the model.
parseInt(s) ==
  CASE s = "0" -> Num(0)
    [] s = "10" -> Num(10)
    [] s = "640" -> Num(640)
    [] s = "480" -> Num(480)
    [] OTHER -> NaN

\* String.prototype.trim on the field vocabulary of the model.
trim(s) ==
  CASE s = " " -> ""
    [] s = " Godot " -> "Godot"
    [] s = " Godot Engine " -> "Godot Engine"
    [] s = " 2 " -> "2"
    [] OTHER -> s

\* The i-th element of an array destructuring: undefined past the end.
Field(parts, i) == IF i <= Len(parts) THEN parts[i] ELSE Undefined

\* !line.trim() : the line holds nothing but white space.
IsBlank(line) == Len(line) = 1 /\ trim(line[1]) = ""

RECURSIVE DropBlankHead(_)
DropBlankHead(lines) ==
  IF lines # <<>> /\ IsBlank(Head(lines)) THEN DropBlankHead(Tail(lines)) ELSE lines

RECURSIVE DropBlankTail(_)
DropBlankTail(lines) ==
  IF lines # <<>> /\ IsBlank(lines[Len(lines)])
  THEN DropBlankTail(SubSeq(lines, 1, Len(lines) - 1))
  ELSE lines

\* stdout.trim().split('\n') : blank lines at either end are gone; the empty
\* text still splits into one empty line.
TrimSplit(lines) ==
  LET t == DropBlankTail(DropBlankHead(lines))
  IN IF t = <<>> THEN << <<"">> >> ELSE t

\* ----------------------------------------------------------- window records
WindowRecord(id, title, ownerName, bounds) ==
  [id |-> id, title |-> title, owner |-> ownerName, bounds |-> bounds]

ZeroBounds == <<Num(0), Num(0), Num(0), Num(0)>>

\* The record of the "Permission issue" branch: it carries no bounds.
Sentinel == WindowRecord("dummy_0", "Screenshot MCP (Permission issue)", "System", <<>>)

\* ------------------------------------------------- strategy 1: Swift helper
SwiftRecord(line) ==
  WindowRecord(Field(line, 1), Field(line, 3), Field(line, 2),
               << parseInt(Field(line, 4)), parseInt(Field(line, 5)),
                  parseInt(Field(line, 6)), parseInt(Field(line, 7)) >>)

RECURSIVE ParseSwiftLines(_)
ParseSwiftLines(lines) ==
  IF lines = <<>> THEN <<>>
  ELSE IF IsBlank(Head(lines)) THEN ParseSwiftLines(Tail(lines))
  ELSE <<SwiftRecord(Head(lines))>> \o ParseSwiftLines(Tail(lines))

\* The exec callback of getWindowListSwift: what the strategy resolves with.
SwiftResolve(error, stdout) == IF error THEN <<>> ELSE ParseSwiftLines(stdout)

\* --------------------------------------------- strategy 2: AppleScript
ErrorPrefixed(s) == s \in {"ERROR: not allowed"}

AppleScriptRecord(parts) ==
  WindowRecord(trim(parts[3]), trim(parts[2]), trim(parts[1]), ZeroBounds)

RECURSIVE ParseAppleScriptLines(_)
ParseAppleScriptLines(lines) ==
  IF lines = <<>> THEN <<>>
  ELSE IF IsBlank(Head(lines)) THEN ParseAppleScriptLines(Tail(lines))
  ELSE IF Len(Head(lines)) >= 3
       THEN <<AppleScriptRecord(Head(lines))>> \o ParseAppleScriptLines(Tail(lines))
       ELSE ParseAppleScriptLines(Tail(lines))

AppleScriptResolve(error, stdout) ==
  IF error THEN <<>>
  ELSE LET output == TrimSplit(stdout)
       IN IF ErrorPrefixed(output[1][1]) THEN <<>>
          ELSE ParseAppleScriptLines(output)

\* ------------------------------------- strategy 3: screencapture listing
\* A stderr line is [digits, sep, rest]: the digits that end right before
\* sep, and the text after it. /(\d+)\. (.+)/ matches when there is a digit,
\* the separator is ". " and something follows.
Matches(line) == line.digits # "" /\ line.sep = ". " /\ line.rest # ""

\* title.split(' ')[0] on the title vocabulary of the model.
FirstWord(s) ==
  CASE s = "Godot Engine" -> "Godot"
    [] s = "My Page" -> "My"
    [] OTHER -> s

ScreencaptureRecord(line) ==
  WindowRecord(line.digits, line.rest, FirstWord(line.rest), ZeroBounds)

RECURSIVE ParseScreencaptureLines(_)
ParseScreencaptureLines(lines) ==
  IF lines = <<>> THEN <<>>
  ELSE IF Matches(Head(lines))
       THEN <<ScreencaptureRecord(Head(lines))>> \o ParseScreencaptureLines(Tail(lines))
       ELSE ParseScreencaptureLines(Tail(lines))

ScreencaptureResolve(error, stderr) ==
  IF error THEN <<>> ELSE ParseScreencaptureLines(stderr)

\* ---------------------------------------- strategy 4: process fallback
\* `app_${i}` and `${appName} Window` on the vocabulary of the model.
AppId(i) ==
  CASE i = 0 -> "app_0"
    [] i = 1 -> "app_1"
    [] i = 2 -> "app_2"
    [] OTHER -> "app_3"

WindowTitleOf(appName) ==
  CASE appName = "Godot" -> "Godot Window"
    [] appName = "Safari" -> "Safari Window"
    [] OTHER -> "Window"

\* apps is stdout.trim().split(', '); i counts from 0 over all of it.
RECURSIVE ParseApps(_, _)
ParseApps(apps, i) ==
  IF i >= Len(apps) THEN <<>>
  ELSE LET appName == trim(apps[i + 1])
       IN (IF appName # ""
           THEN <<WindowRecord(AppId(i), WindowTitleOf(appName), appName, ZeroBounds)>>
           ELSE <<>>) \o ParseApps(apps, i + 1)

FallbackResolve(error, apps) ==
  IF error THEN <<Sentinel>> ELSE ParseApps(apps, 0)

\* ------------------------------------------ what the OS facilities can print
SeqsUpTo(S, n) == UNION {[1..m -> S] : m \in 0..n}

SwiftLines ==
  { <<"77", "Godot", "Godot Engine", "10", "0", "640", "480">>,
    <<"1234", "Safari", "My Page">>, <<"garbage">>, <<"">> }
SwiftStdouts == SeqsUpTo(SwiftLines, MaxLines)

AppleScriptLines ==
  { <<" Godot ", " Godot Engine ", " 2 ">>, <<"1234", "Safari", "My Page">>,
    <<"Safari", "My Page", "2">>, <<"Safari", "My Page">>,
    <<"ERROR: not allowed">>, <<"">> }
AppleScriptStdouts == SeqsUpTo(AppleScriptLines, MaxLines)

ScreencaptureLines ==
  { [digits |-> "12", sep |-> ". ", rest |-> "Godot Engine"],
    [digits |-> "", sep |-> "", rest |-> "usage"] }
ScreencaptureStderrs == SeqsUpTo(ScreencaptureLines, MaxLines)

\* ''.split(', ') is [''] : the split never yields an empty array.
FallbackStdouts == SeqsUpTo({"", "Godot", "Safari"}, MaxLines) \ {<<>>}

Platforms == {"darwin", "linux"}

\* ---------------------------------------------------------------- state
VARIABLES
  platform,    \* process.platform
  dpc,         \* dpc[d]: where getWindowList call d stands
  doutcome,    \* doutcome[d]: "pending", "returned" or "threw"
  dres,        \* dres[d]: the array call d returned
  log,         \* log[d]: the strategies call d started and how each ended
  scriptFile,  \* whether SCREENSHOT_DIR/getWindows.swift exists
  unlinks,     \* fs.unlink requests issued and not yet performed
  loaded       \* loaded[d]: whether the child of call d found the script

dvars == <<platform, dpc, doutcome, dres, log, scriptFile, unlinks, loaded>>

Event(ev, k, out) == [ev |-> ev, k |-> k, out |-> out]

\* A cascade whose last strategy never calls back.
AwaitingLost(k) ==
  CASE k = 1 -> "swWrite"
    [] k = 2 -> "appleScript"
    [] k = 3 -> "screencapture"
    [] OTHER -> "lost"

\* The program counter of a call while strategy k is outstanding.
Awaiting(k) ==
  CASE k = 1 -> "swWrite"
    [] k = 2 -> "appleScript"
    [] k = 3 -> "screencapture"
    [] OTHER -> "fallback"

\* A cascade that runs every strategy and returns what the last one found.
getWindowListStepLastWins(k, out) ==
  [ret |-> k = 4, value |-> out, next |-> k + 1]

\* A cascade that tries a strategy again when it found nothing.
getWindowListStepRetry(k, out) ==
  IF k = 4 \/ Len(out) > 0
  THEN [ret |-> TRUE, value |-> out, next |-> 0]
  ELSE [ret |-> FALSE, value |-> <<>>, next |-> k]

\* getWindowList after strategy k resolved with out: return it, or go on to
\* strategy k + 1.
getWindowListStep(k, out) ==
  IF k = 4 \/ Len(out) > 0
  THEN [ret |-> TRUE, value |-> out, next |-> 0]
  ELSE [ret |-> FALSE, value |-> <<>>, next |-> k + 1]

\* The value getWindowList returns from its catch block.
CatchValue == <<>>

\* Strategy k of call d resolves with out; the continuation of the await runs
\* in the same turn.
Resolved(d, k, out) ==
  LET step == getWindowListStep(k, out)
  IN IF step.ret
     THEN /\ dpc' = [dpc EXCEPT ![d] = "done"]
          /\ doutcome' = [doutcome EXCEPT ![d] = "returned"]
          /\ dres' = [dres EXCEPT ![d] = step.value]
          /\ log' = [log EXCEPT ![d] = Append(@, Event("resolve", k, out))]
     ELSE /\ dpc' = [dpc EXCEPT ![d] = Awaiting(step.next)]
          /\ log' = [log EXCEPT ![d] =
                       @ \o <<Event("resolve", k, out), Event("start", step.next, <<>>)>>]
          /\ UNCHANGED <<doutcome, dres>>

\* Strategy k of call d rejects: getWindowList catches and returns.
Rejected(d, k) ==
  /\ dpc' = [dpc EXCEPT ![d] = "done"]
  /\ doutcome' = [doutcome EXCEPT ![d] = "returned"]
  /\ dres' = [dres EXCEPT ![d] = CatchValue]
  /\ log' = [log EXCEPT ![d] = Append(@, Event("reject", k, <<>>))]

\* getWindowList is called: the platform check, then strategy 1 issues its
\* writeFile.
Invoke(d) ==
  /\ dpc[d] = "idle"
  /\ IF platform # "darwin"
     THEN /\ dpc' = [dpc EXCEPT ![d] = "done"]
          /\ doutcome' = [doutcome EXCEPT ![d] = "threw"]
          /\ UNCHANGED log
     ELSE /\ dpc' = [dpc EXCEPT ![d] = Awaiting(1)]
          /\ log' = [log EXCEPT ![d] = Append(@, Event("start", 1, <<>>))]
          /\ UNCHANGED doutcome
  /\ UNCHANGED <<platform, dres, scriptFile, unlinks, loaded>>

\* fs.writeFile(scriptPath) completes.
SwiftWriteDone(d, ok) ==
  /\ dpc[d] = "swWrite"
  /\ IF ok
     THEN /\ scriptFile' = TRUE
          /\ dpc' = [dpc EXCEPT ![d] = "swChmod"]
          /\ UNCHANGED <<doutcome, dres, log>>
     ELSE /\ Rejected(d, 1)
          /\ UNCHANGED scriptFile
  /\ UNCHANGED <<platform, unlinks, loaded>>

\* The continuation after writeFile: execSync chmod, then exec of the script.
SwiftChmod(d, ok) ==
  /\ dpc[d] = "swChmod"
  /\ IF ok /\ scriptFile
     THEN /\ dpc' = [dpc EXCEPT ![d] = "swSpawn"]
          /\ UNCHANGED <<doutcome, dres, log>>
     ELSE Rejected(d, 1)
  /\ UNCHANGED <<platform, scriptFile, unlinks, loaded>>

\* The child process starts and opens the script.
SwiftLoad(d) ==
  /\ dpc[d] = "swSpawn"
  /\ loaded' = [loaded EXCEPT ![d] = scriptFile]
  /\ dpc' = [dpc EXCEPT ![d] = "swExec"]
  /\ UNCHANGED <<platform, doutcome, dres, log, scriptFile, unlinks>>

\* The exec callback of getWindowListSwift.
SwiftExecDone(d, error, stdout) ==
  /\ dpc[d] = "swExec"
  /\ unlinks' = unlinks + 1
  /\ loaded' = [loaded EXCEPT ![d] = FALSE]
  /\ Resolved(d, 1, SwiftResolve(error \/ ~loaded[d], stdout))
  /\ UNCHANGED <<platform, scriptFile>>

\* A pending fs.unlink(scriptPath) is performed; its failure is only logged.
Unlink ==
  /\ unlinks > 0
  /\ unlinks' = unlinks - 1
  /\ scriptFile' = FALSE
  /\ UNCHANGED <<platform, dpc, doutcome, dres, log, loaded>>

\* The exec callback of getWindowListAppleScript.
AppleScriptDone(d, error, stdout) ==
  /\ dpc[d] = "appleScript"
  /\ Resolved(d, 2, AppleScriptResolve(error, stdout))
  /\ UNCHANGED <<platform, scriptFile, unlinks, loaded>>

\* The exec callback of getWindowListScreencapture.
ScreencaptureDone(d, error, stderr) ==
  /\ dpc[d] = "screencapture"
  /\ Resolved(d, 3, ScreencaptureResolve(error, stderr))
  /\ UNCHANGED <<platform, scriptFile, unlinks, loaded>>

\* The exec callback of getApplicationsAsFallback.
FallbackDone(d, error, stdout) ==
  /\ dpc[d] = "fallback"
  /\ Resolved(d, 4, FallbackResolve(error, stdout))
  /\ UNCHANGED <<platform, scriptFile, unlinks, loaded>>

DInit ==
  /\ platform \in Platforms
  /\ dpc = [d \in Calls |-> "idle"]
  /\ doutcome = [d \in Calls |-> "pending"]
  /\ dres = [d \in Calls |-> <<>>]
  /\ log = [d \in Calls |-> <<>>]
  /\ scriptFile = FALSE
  /\ unlinks = 0
  /\ loaded = [d \in Calls |-> FALSE]

DNext ==
  \/ \E d \in Calls : Invoke(d)
  \/ \E d \in Calls, ok \in BOOLEAN : SwiftWriteDone(d, ok)
  \/ \E d \in Calls, ok \in BOOLEAN : SwiftChmod(d, ok)
  \/ \E d \in Calls : SwiftLoad(d)
  \/ \E d \in Calls, error \in BOOLEAN, stdout \in SwiftStdouts :
       SwiftExecDone(d, error, stdout)
  \/ Unlink
  \/ \E d \in Calls, error \in BOOLEAN, stdout \in AppleScriptStdouts :
       AppleScriptDone(d, error, stdout)
  \/ \E d \in Calls, error \in BOOLEAN, stderr \in ScreencaptureStderrs :
       ScreencaptureDone(d, error, stderr)
  \/ \E d \in Calls, error \in BOOLEAN, stdout \in FallbackStdouts :
       FallbackDone(d, error, stdout)

\* ============================================================ capture service
\* Date.now() runs from 0 to MaxClock.
MaxClock == 1
\* Math.floor(Math.random() * 1000) is drawn from 0..MaxRand.
MaxRand == 1
\* Successful captures after which no new capture call is started.
MaxCaptures == 1
\* Successful captures past the capacity of the ring in a long run.
MaxExtra == 2

\* "Limit history to 100 items"
HistoryLimit == 100

\* An optional parameter is <<>> when absent and <<v>> when given.
Absent == <<>>
Given(v) == <<v>>

Null == <<>>

\* The options object of a tool call.
NoOptions ==
  [ windowTitle |-> Absent, format |-> Absent, quality |-> Absent, saveToFile |-> Absent,
    x |-> Absent, y |-> Absent, width |-> Absent, height |-> Absent,
    appType |-> Absent ]

Options(format, quality, saveToFile) ==
  [NoOptions EXCEPT !.format = format, !.quality = quality, !.saveToFile = saveToFile]

\* options.format || 'png'
FormatOf(options) == IF options.format = Absent THEN "png" ELSE options.format[1]

\* options.quality || 100 : 0 is falsy.
QualityOf(options) ==
  IF options.quality = Absent \/ options.quality[1] = 0 THEN 100 ELSE options.quality[1]

\* options.saveToFile !== undefined ? options.saveToFile : true
SaveToFileOf(options) ==
  IF options.saveToFile = Absent THEN TRUE ELSE options.saveToFile[1]

\* `ss_${Date.now()}_${Math.floor(Math.random() * 1000)}`
generateId(t, r) == <<"ss", t, r>>

\* `fullscreen_${timestamp.replace(/[:.]/g, '-')}.${format}` in SCREENSHOT_DIR
FullScreenPath(timestamp, format) == <<"fullscreen", timestamp, format>>

\* format === 'jpg' || quality < 100
NeedsJpeg(format, quality) == format = "jpg" \/ quality < 100

\* A history that is never trimmed.
addToHistoryUnbounded(h, screenshot) == Append(h, screenshot)

\* A history that records a capture twice.
addToHistoryTwice(h, screenshot) ==
  LET once == IF Len(h) >= HistoryLimit THEN Append(Tail(h), screenshot)
              ELSE Append(h, screenshot)
  IN IF Len(once) >= HistoryLimit THEN Append(Tail(once), screenshot)
     ELSE Append(once, screenshot)

addToHistory(h, screenshot) ==
  IF Len(h) >= HistoryLimit THEN Append(Tail(h), screenshot) ELSE Append(h, screenshot)

\* screenshotHistory.find(s => s.id === id) : <<>> when there is none.
getScreenshotById(h, id) ==
  LET hits == {i \in 1..Len(h) : h[i].id = id}
  IN IF hits = {} THEN <<>>
     ELSE <<h[CHOOSE i \in hits : \A j \in hits : i <= j]>>

VARIABLES
  now,        \* the clock, in milliseconds
  history,    \* screenshotHistory
  files,      \* the paths that exist in SCREENSHOT_DIR
  cpc,        \* cpc[c]: the await caller c is suspended at, or "idle"
  loc,        \* loc[c]: the local variables of the capture call of caller c
  cres,       \* cres[c]: what the last capture call of caller c returned or threw
  succeeded,  \* capture calls that returned a screenshot so far
  fx          \* fx[c]: what the request of caller c did outside the process, in order

cvars == <<now, history, files, cpc, loc, cres, succeeded, fx>>

NoLocals ==
  [ op |-> "none", format |-> "png", quality |-> 100, saveToFile |-> FALSE,
    windowTitle |-> "", windowId |-> "", region |-> <<>>,
    timestamp |-> 0, filePath |-> Null, tempFilePath |-> Null,
    enc |-> "none", id |-> <<>>, nested |-> FALSE, outer |-> <<>>,
    appType |-> "any", screenshot |-> <<>>, detected |-> <<>> ]

\* screenshotData as it is stored in the history and returned.
ScreenshotData(l, width, height) ==
  [ id |-> l.id, timestamp |-> l.timestamp, type |-> l.op, format |-> l.format,
    quality |-> l.quality, width |-> width, height |-> height,
    filePath |-> l.filePath, enc |-> l.enc,
    windowTitle |-> l.windowTitle, windowId |-> l.windowId, region |-> l.region ]

NoResult == [kind |-> "none", screenshot |-> <<>>, error |-> <<>>, list |-> <<>>]
ReturnedData(screenshot) ==
  [kind |-> "returned", screenshot |-> <<screenshot>>, error |-> <<>>, list |-> <<>>]
Threw(message) == [kind |-> "threw", screenshot |-> <<>>, error |-> message, list |-> <<>>]

\* A function that returns an array: the windows, or the history.
ReturnedList(list) == [kind |-> "returned", screenshot |-> <<>>, error |-> <<>>, list |-> list]

\* A resource handler returns {success: false, error} itself.
Failed(message) == [kind |-> "failed", screenshot |-> <<>>, error |-> message, list |-> <<>>]

\* A handler that lets the error of the capture function through.
ToolResponseRethrow(result) ==
  [ settled |-> IF result.kind = "threw" THEN "rejected" ELSE "resolved",
    success |-> result.kind = "returned",
    error |-> result.error,
    screenshot |-> result.screenshot,
    list |-> result.list ]

\* What a tool handler resolves to when the capture function it awaits
\* settled with `result`: {success: true, screenshot} or, from its catch
\* block, {success: false, error: error.message}.
ToolResponse(result) ==
  [ settled |-> "resolved",
    success |-> result.kind = "returned",
    error |-> result.error,
    screenshot |-> result.screenshot,
    list |-> result.list ]

\* A command run, a process started or a file written by a request.
Effect(ev, args) == [ev |-> ev, args |-> args]

\* The request of caller c does `effects`, in this order.
Does(c, effects) == fx' = [fx EXCEPT ![c] = @ \o effects]

\* The request of caller c is over with `result`, the history untouched.
Reply(c, result) ==
  /\ cpc' = [cpc EXCEPT ![c] = "idle"]
  /\ loc' = [loc EXCEPT ![c] = NoLocals]
  /\ cres' = [cres EXCEPT ![c] = result]
  /\ UNCHANGED <<history, succeeded>>

\* The capture call of caller c throws: catch blocks wrap the message.
Throw(c, message) ==
  /\ cpc' = [cpc EXCEPT ![c] = "idle"]
  /\ loc' = [loc EXCEPT ![c] = NoLocals]
  /\ cres' = [cres EXCEPT ![c] = Threw(message)]
  /\ UNCHANGED <<history, succeeded>>

\* The capture call of caller c returns screenshotData after addToHistory.
Return(c, screenshot) ==
  /\ history' = addToHistory(history, screenshot)
  /\ cpc' = [cpc EXCEPT ![c] = "idle"]
  /\ loc' = [loc EXCEPT ![c] = NoLocals]
  /\ cres' = [cres EXCEPT ![c] = ReturnedData(screenshot)]
  /\ succeeded' = succeeded + 1

\* A millisecond passes.
Tick ==
  /\ now < MaxClock
  /\ now' = now + 1
  /\ UNCHANGED <<history, files, cpc, loc, cres, succeeded, fx, dvars>>

\* ------------------------------------------------------- captureFullScreen
FullScreenFailure(cause) == <<"Failed to capture full screen", cause>>

\* captureRegion's outer catch around the captureFullScreen it awaits.
RegionFailure(message) == <<"Failed to capture region">> \o message

\* The await captureFullScreen reaches after `stage`; the id is generated
\* when screenshotData is built, before the await of metadata().
FullScreenAfter(stage, l, t, r) ==
  LET next == IF stage = "shot" /\ NeedsJpeg(l.format, l.quality) THEN "fsJpeg"
              ELSE IF stage \in {"shot", "jpeg"} /\ l.saveToFile THEN "fsWrite"
              ELSE "fsMeta"
  IN [pc |-> next, l |-> IF next = "fsMeta" THEN [l EXCEPT !.id = generateId(t, r)] ELSE l]

\* The locals of captureFullScreen(options) at `await screenshot()`.
FullScreenLocals(options, t) ==
  [NoLocals EXCEPT !.op = "fullscreen",
                   !.format = FormatOf(options),
                   !.quality = QualityOf(options),
                   !.saveToFile = SaveToFileOf(options),
                   !.timestamp = t,
                   !.filePath = IF SaveToFileOf(options)
                                THEN FullScreenPath(t, FormatOf(options))
                                ELSE Null]

\* captureFullScreen(options), called as a tool, up to `await screenshot()`.
captureFullScreen(c, options) ==
  /\ cpc[c] = "idle"
  /\ cpc' = [cpc EXCEPT ![c] = "fsShot"]
  /\ loc' = [loc EXCEPT ![c] = FullScreenLocals(options, now)]
  /\ cres' = [cres EXCEPT ![c] = NoResult]
  /\ fx' = [fx EXCEPT ![c] = <<>>]
  /\ UNCHANGED <<now, history, files, succeeded, dvars>>

\* captureFullScreen throws: to the tool handler, or into captureRegion.
FullScreenThrow(c, cause) ==
  IF loc[c].nested
  THEN Throw(c, RegionFailure(FullScreenFailure(cause)))
  ELSE Throw(c, FullScreenFailure(cause))

\* captureFullScreen returns: to the tool handler, or into captureRegion,
\* which goes on to crop the image.
FullScreenReturn(c, screenshot) ==
  IF loc[c].nested
  THEN /\ history' = addToHistory(history, screenshot)
       /\ succeeded' = succeeded + 1
       /\ cpc' = [cpc EXCEPT ![c] = "regCrop"]
       /\ loc' = [loc EXCEPT ![c] = [loc[c].outer[1] EXCEPT !.enc = screenshot.enc]]
       /\ UNCHANGED cres
  ELSE Return(c, screenshot)

\* screenshot() settles; enc is the encoding of the bytes it delivers.
ScreenshotDone(c, ok, enc, r) ==
  /\ cpc[c] = "fsShot"
  /\ IF ok
     THEN LET after == FullScreenAfter("shot", [loc[c] EXCEPT !.enc = enc], now, r)
          IN /\ cpc' = [cpc EXCEPT ![c] = after.pc]
             /\ loc' = [loc EXCEPT ![c] = after.l]
             /\ UNCHANGED <<cres, history, succeeded>>
     ELSE FullScreenThrow(c, "screenshot")
  /\ UNCHANGED <<now, files, fx, dvars>>

\* sharp(imgBuffer).jpeg({quality}).toBuffer() settles.
FullScreenJpegDone(c, ok, r) ==
  /\ cpc[c] = "fsJpeg"
  /\ IF ok
     THEN LET after == FullScreenAfter("jpeg", [loc[c] EXCEPT !.enc = "jpeg"], now, r)
          IN /\ cpc' = [cpc EXCEPT ![c] = after.pc]
             /\ loc' = [loc EXCEPT ![c] = after.l]
             /\ UNCHANGED <<cres, history, succeeded>>
     ELSE FullScreenThrow(c, "sharp")
  /\ UNCHANGED <<now, files, fx, dvars>>

\* fs.writeFile(filePath, processedBuffer) settles.
FullScreenWriteDone(c, ok, r) ==
  /\ cpc[c] = "fsWrite"
  /\ IF ok
     THEN LET after == FullScreenAfter("write", loc[c], now, r)
          IN /\ cpc' = [cpc EXCEPT ![c] = after.pc]
             /\ loc' = [loc EXCEPT ![c] = after.l]
             /\ files' = files \cup {loc[c].filePath}
             /\ Does(c, <<Effect("writeFile", <<"output">>)>>)
             /\ UNCHANGED <<cres, history, succeeded>>
     ELSE /\ FullScreenThrow(c, "writeFile")
          /\ UNCHANGED <<files, fx>>
  /\ UNCHANGED <<now, dvars>>

\* sharp(processedBuffer).metadata() settles: addToHistory and return.
FullScreenMetaDone(c, ok, width, height) ==
  /\ cpc[c] = "fsMeta"
  /\ IF ok
     THEN FullScreenReturn(c, ScreenshotData(loc[c], width, height))
     ELSE FullScreenThrow(c, "metadata")
  /\ UNCHANGED <<now, files, fx, dvars>>

\* ------------------------------------------- capture through a temp file
\* `temp_${Date.now()}.png` in SCREENSHOT_DIR
TempPath(t) == <<"temp", t>>

\* The await captureWindow (prefix "win") or captureRegion on macOS (prefix
\* "reg") reaches after `stage` of the temp-file pipeline.
TempAfter(stage, l) ==
  IF stage = "read" /\ NeedsJpeg(l.format, l.quality) THEN "Jpeg"
  ELSE IF stage \in {"read", "jpeg"} /\ l.saveToFile THEN "Write"
  ELSE "Remove"

\* ------------------------------------------------------------ captureWindow
\* title.includes(windowTitle) on the title vocabulary of the model.
Includes(title, part) ==
  \/ title = part
  \/ part = ""
  \/ <<title, part>> \in { <<"Godot Engine", "Godot">>, <<"Godot Window", "Godot">>,
                           <<"Godot Engine", "Engine">>, <<"Godot Window", "Window">>,
                           <<"Safari Window", "Window">>, <<"Safari Window", "Safari">>,
                           <<"Screenshot MCP (Permission issue)", "Screenshot">> }

\* win.title && win.title.includes(windowTitle)
TitleMatches(win, windowTitle) ==
  /\ win.title # Undefined
  /\ win.title # ""
  /\ Includes(win.title, windowTitle)

\* A selection that takes the last window that matches.
FindWindowLast(windows, windowTitle) ==
  LET hits == {i \in 1..Len(windows) : TitleMatches(windows[i], windowTitle)}
  IN IF hits = {} THEN <<>>
     ELSE <<windows[CHOOSE i \in hits : \A j \in hits : i >= j]>>

\* windows.find(...) : <<>> when no window matches, else the first that does.
FindWindow(windows, windowTitle) ==
  LET hits == {i \in 1..Len(windows) : TitleMatches(windows[i], windowTitle)}
  IN IF hits = {} THEN <<>>
     ELSE <<windows[CHOOSE i \in hits : \A j \in hits : i <= j]>>

\* windowTitle.replace(/[^a-zA-Z0-9]/g, '_') on the vocabulary of the model.
Sanitize(windowTitle) ==
  CASE windowTitle = "Godot Engine" -> "Godot_Engine"
    [] OTHER -> windowTitle

\* `window_${sanitized}_${timestamp}.${format}` in SCREENSHOT_DIR
WindowPath(windowTitle, timestamp, format) ==
  <<"window", Sanitize(windowTitle), timestamp, format>>

\* A dispatcher that addresses every window by its id.
isAppIdNever(id) == FALSE

\* targetWindow.id.startsWith('app_')
isAppId(id) == id \in {AppId(i) : i \in 0..3}

\* The screencapture command line of captureWindow, without the temp path.
ScreencaptureCommand(id) ==
  IF isAppId(id) THEN <<"screencapture">> ELSE <<"screencapture", "-l", id>>

\* The command a discovery strategy hands to exec.
StrategyCommand(k) ==
  CASE k = 1 -> "getWindows.swift"
    [] k = 2 -> "osascript windows"
    [] k = 3 -> "screencapture -lc"
    [] OTHER -> "osascript processes"

\* What a getWindowList call with these events has done outside the
\* process: strategies 2 to 4 call exec as they start; strategy 1 has written
\* its script, made it executable and run it when it resolves.
RECURSIVE DiscoveryEffects(_)
DiscoveryEffects(events) ==
  IF events = <<>> THEN <<>>
  ELSE LET e == Head(events)
       IN (IF e.ev = "resolve" /\ e.k = 1
           THEN << Effect("writeFile", <<StrategyCommand(1)>>),
                   Effect("execSync", <<"chmod">>),
                   Effect("exec", <<StrategyCommand(1)>>) >>
           ELSE IF e.ev = "start" /\ e.k > 1
           THEN <<Effect("exec", <<StrategyCommand(e.k)>>)>>
           ELSE <<>>)
          \o DiscoveryEffects(Tail(events))

WindowFailure(message) == <<"Failed to capture window">> \o message
ScreencaptureFailure(cause) == <<"Failed to capture window using screencapture", cause>>

\* The discovery call of caller c is over and its slot is free again.
ReleaseCall(c) ==
  /\ dpc' = [dpc EXCEPT ![c] = "idle"]
  /\ doutcome' = [doutcome EXCEPT ![c] = "pending"]
  /\ dres' = [dres EXCEPT ![c] = <<>>]
  /\ log' = [log EXCEPT ![c] = <<>>]
  /\ UNCHANGED <<platform, scriptFile, unlinks, loaded>>

\* captureWindow(options) up to `await getWindowList()`.
captureWindow(c, options) ==
  /\ cpc[c] = "idle"
  /\ IF options.windowTitle = Absent \/ options.windowTitle = Given("")
     THEN /\ Throw(c, <<"Window title is required">>)
          /\ UNCHANGED dvars
     ELSE /\ Invoke(c)
          /\ cpc' = [cpc EXCEPT ![c] = "winList"]
          /\ loc' = [loc EXCEPT ![c] =
               [NoLocals EXCEPT !.op = "window",
                                !.windowTitle = options.windowTitle[1],
                                !.format = FormatOf(options),
                                !.quality = QualityOf(options),
                                !.saveToFile = SaveToFileOf(options)]]
          /\ cres' = [cres EXCEPT ![c] = NoResult]
          /\ UNCHANGED <<history, succeeded>>
  /\ fx' = [fx EXCEPT ![c] = <<>>]
  /\ UNCHANGED <<now, files>>

\* getWindowList() settled: find the window, run screencapture into the
\* temp file (execSync) and issue the read of it.
WindowListed(c, captured) ==
  /\ cpc[c] = "winList"
  /\ dpc[c] = "done"
  /\ ReleaseCall(c)
  /\ IF doutcome[c] = "threw"
     THEN /\ Throw(c, WindowFailure(<<"Window listing is only supported on macOS">>))
          /\ UNCHANGED <<files, fx>>
     ELSE LET found == FindWindow(dres[c], loc[c].windowTitle)
          IN IF found = <<>>
             THEN /\ Throw(c, WindowFailure(<<"Window not found">>))
                  /\ Does(c, DiscoveryEffects(log[c]))
                  /\ UNCHANGED files
             ELSE /\ Does(c, DiscoveryEffects(log[c])
                               \o <<Effect("execSync", ScreencaptureCommand(found[1].id))>>)
                  /\ IF captured
                     THEN /\ files' = files \cup {TempPath(now)}
                          /\ cpc' = [cpc EXCEPT ![c] = "winRead"]
                          /\ loc' = [loc EXCEPT ![c] =
                               [loc[c] EXCEPT
                                  !.windowId = found[1].id,
                                  !.timestamp = now,
                                  !.filePath = IF loc[c].saveToFile
                                               THEN WindowPath(loc[c].windowTitle, now,
                                                               loc[c].format)
                                               ELSE Null,
                                  !.tempFilePath = TempPath(now)]]
                          /\ UNCHANGED <<cres, history, succeeded>>
                     ELSE /\ Throw(c, WindowFailure(ScreencaptureFailure("execSync")))
                          /\ UNCHANGED files
  /\ UNCHANGED now

\* fs.readFile(tempFilePath) settles.
WindowReadDone(c, ok) ==
  /\ cpc[c] = "winRead"
  /\ IF ok /\ loc[c].tempFilePath \in files
     THEN /\ cpc' = [cpc EXCEPT ![c] = "win" \o TempAfter("read", loc[c])]
          /\ loc' = [loc EXCEPT ![c].enc = "png"]
          /\ UNCHANGED <<cres, history, succeeded>>
     ELSE Throw(c, WindowFailure(ScreencaptureFailure("readFile")))
  /\ UNCHANGED <<now, files, fx, dvars>>

\* sharp(processedBuffer).jpeg({quality}).toBuffer() settles.
WindowJpegDone(c, ok) ==
  /\ cpc[c] = "winJpeg"
  /\ IF ok
     THEN /\ cpc' = [cpc EXCEPT ![c] = "win" \o TempAfter("jpeg", loc[c])]
          /\ loc' = [loc EXCEPT ![c].enc = "jpeg"]
          /\ UNCHANGED <<cres, history, succeeded>>
     ELSE Throw(c, WindowFailure(ScreencaptureFailure("sharp")))
  /\ UNCHANGED <<now, files, fx, dvars>>

\* fs.writeFile(filePath, processedBuffer) settles.
WindowWriteDone(c, ok) ==
  /\ cpc[c] = "winWrite"
  /\ IF ok
     THEN /\ cpc' = [cpc EXCEPT ![c] = "win" \o TempAfter("write", loc[c])]
          /\ files' = files \cup {loc[c].filePath}
          /\ Does(c, <<Effect("writeFile", <<"output">>)>>)
          /\ UNCHANGED <<loc, cres, history, succeeded>>
     ELSE /\ Throw(c, WindowFailure(ScreencaptureFailure("writeFile")))
          /\ UNCHANGED <<files, fx>>
  /\ UNCHANGED <<now, dvars>>

\* fs.remove(tempFilePath) settles; then metadata() is awaited.
WindowRemoveDone(c, ok) ==
  /\ cpc[c] = "winRemove"
  /\ IF ok
     THEN /\ cpc' = [cpc EXCEPT ![c] = "winMeta"]
          /\ files' = files \ {loc[c].tempFilePath}
          /\ UNCHANGED <<loc, cres, history, succeeded>>
     ELSE /\ Throw(c, WindowFailure(ScreencaptureFailure("remove")))
          /\ UNCHANGED files
  /\ UNCHANGED <<now, fx, dvars>>

\* sharp(processedBuffer).metadata() settles: generateId, addToHistory, return.
WindowMetaDone(c, ok, width, height, r) ==
  /\ cpc[c] = "winMeta"
  /\ IF ok
     THEN Return(c, ScreenshotData([loc[c] EXCEPT !.id = generateId(now, r)], width, height))
     ELSE Throw(c, WindowFailure(ScreencaptureFailure("metadata")))
  /\ UNCHANGED <<now, files, fx, dvars>>

\* ------------------------------------------------------------ captureRegion
\* `region_${x}_${y}_${width}_${height}_${timestamp}.${format}`
RegionPath(region, timestamp, format) ==
  <<"region", region[1], region[2], region[3], region[4], timestamp, format>>

\* A validation that takes the coordinate 0 for a missing one.
RegionParamsFalsy(options) ==
  \E v \in {options.x, options.y, options.width, options.height} :
    v \in {Absent, Given(0)}

\* x === undefined || y === undefined || width === undefined || height === undefined
RegionParamsMissing(options) ==
  \/ options.x = Absent \/ options.y = Absent
  \/ options.width = Absent \/ options.height = Absent

RegionCaptureFailure(cause) ==
  <<"Failed to capture region", "Failed to capture region using screencapture", cause>>

\* captureRegion(options): on macOS up to the read of the temp file that
\* screencapture -R wrote (execSync); elsewhere up to the `await screenshot()`
\* of captureFullScreen({format: 'png', saveToFile: false}).
captureRegion(c, options, captured) ==
  /\ cpc[c] = "idle"
  /\ IF RegionParamsMissing(options)
     THEN /\ Throw(c, <<"Region coordinates (x, y, width, height) are required">>)
          /\ fx' = [fx EXCEPT ![c] = <<>>]
          /\ UNCHANGED files
     ELSE LET region == <<options.x[1], options.y[1], options.width[1], options.height[1]>>
              l == [NoLocals EXCEPT !.op = "region",
                                    !.region = region,
                                    !.format = FormatOf(options),
                                    !.quality = QualityOf(options),
                                    !.saveToFile = SaveToFileOf(options)]
          IN IF platform = "darwin"
             THEN /\ fx' = [fx EXCEPT ![c] = <<Effect("execSync", <<"screencapture", "-R">>)>>]
                  /\ IF captured
                     THEN /\ files' = files \cup {TempPath(now)}
                          /\ cpc' = [cpc EXCEPT ![c] = "regRead"]
                          /\ loc' = [loc EXCEPT ![c] =
                               [l EXCEPT !.timestamp = now,
                                         !.tempFilePath = TempPath(now),
                                         !.filePath = IF l.saveToFile
                                                      THEN RegionPath(region, now, l.format)
                                                      ELSE Null]]
                          /\ cres' = [cres EXCEPT ![c] = NoResult]
                          /\ UNCHANGED <<history, succeeded>>
                     ELSE /\ Throw(c, RegionCaptureFailure("execSync"))
                          /\ UNCHANGED files
             ELSE /\ fx' = [fx EXCEPT ![c] = <<>>]
                  /\ cpc' = [cpc EXCEPT ![c] = "fsShot"]
                  /\ loc' = [loc EXCEPT ![c] =
                       [FullScreenLocals(Options(Given("png"), Absent, Given(FALSE)), now)
                          EXCEPT !.nested = TRUE, !.outer = <<l>>]]
                  /\ cres' = [cres EXCEPT ![c] = NoResult]
                  /\ UNCHANGED <<files, history, succeeded>>
  /\ UNCHANGED <<now, dvars>>

\* fs.readFile(tempFilePath) settles.
RegionReadDone(c, ok) ==
  /\ cpc[c] = "regRead"
  /\ IF ok /\ loc[c].tempFilePath \in files
     THEN /\ cpc' = [cpc EXCEPT ![c] = "reg" \o TempAfter("read", loc[c])]
          /\ loc' = [loc EXCEPT ![c].enc = "png"]
          /\ UNCHANGED <<cres, history, succeeded>>
     ELSE Throw(c, RegionCaptureFailure("readFile"))
  /\ UNCHANGED <<now, files, fx, dvars>>

\* sharp(processedBuffer).jpeg({quality}).toBuffer() settles.
RegionJpegDone(c, ok) ==
  /\ cpc[c] = "regJpeg"
  /\ IF ok
     THEN /\ cpc' = [cpc EXCEPT ![c] = "reg" \o TempAfter("jpeg", loc[c])]
          /\ loc' = [loc EXCEPT ![c].enc = "jpeg"]
          /\ UNCHANGED <<cres, history, succeeded>>
     ELSE Throw(c, RegionCaptureFailure("sharp"))
  /\ UNCHANGED <<now, files, fx, dvars>>

\* fs.writeFile(filePath, processedBuffer) settles.
RegionWriteDone(c, ok) ==
  /\ cpc[c] = "regWrite"
  /\ IF ok
     THEN /\ cpc' = [cpc EXCEPT ![c] = "reg" \o TempAfter("write", loc[c])]
          /\ files' = files \cup {loc[c].filePath}
          /\ Does(c, <<Effect("writeFile", <<"output">>)>>)
          /\ UNCHANGED <<loc, cres, history, succeeded>>
     ELSE /\ Throw(c, RegionCaptureFailure("writeFile"))
          /\ UNCHANGED <<files, fx>>
  /\ UNCHANGED <<now, dvars>>

\* fs.remove(tempFilePath) settles: generateId, addToHistory, return; width
\* and height are the requested ones.
RegionRemoveDone(c, ok, r) ==
  /\ cpc[c] = "regRemove"
  /\ IF ok
     THEN /\ files' = files \ {loc[c].tempFilePath}
          /\ Return(c, ScreenshotData([loc[c] EXCEPT !.id = generateId(now, r)],
                                      loc[c].region[3], loc[c].region[4]))
     ELSE /\ Throw(c, RegionCaptureFailure("remove"))
          /\ UNCHANGED files
  /\ UNCHANGED <<now, fx, dvars>>

\* Off macOS: sharp(...).extract(...).toFormat(...).jpeg({quality}).toBuffer()
\* settles; the last output format set wins.
RegionCropDone(c, ok, r) ==
  /\ cpc[c] = "regCrop"
  /\ IF ok
     THEN LET l == [loc[c] EXCEPT !.enc = "jpeg",
                                  !.timestamp = now,
                                  !.filePath = IF loc[c].saveToFile
                                               THEN RegionPath(loc[c].region, now,
                                                               loc[c].format)
                                               ELSE Null]
          IN IF l.saveToFile
             THEN /\ cpc' = [cpc EXCEPT ![c] = "regCropWrite"]
                  /\ loc' = [loc EXCEPT ![c] = l]
                  /\ UNCHANGED <<cres, history, succeeded>>
             ELSE Return(c, ScreenshotData([l EXCEPT !.id = generateId(now, r)],
                                           l.region[3], l.region[4]))
     ELSE Throw(c, RegionFailure(<<"sharp">>))
  /\ UNCHANGED <<now, files, fx, dvars>>

\* Off macOS: fs.writeFile(filePath, processedBuffer) settles.
RegionCropWriteDone(c, ok, r) ==
  /\ cpc[c] = "regCropWrite"
  /\ IF ok
     THEN /\ files' = files \cup {loc[c].filePath}
          /\ Does(c, <<Effect("writeFile", <<"output">>)>>)
          /\ Return(c, ScreenshotData([loc[c] EXCEPT !.id = generateId(now, r)],
                                      loc[c].region[3], loc[c].region[4]))
     ELSE /\ Throw(c, RegionFailure(<<"writeFile">>))
          /\ UNCHANGED <<files, fx>>
  /\ UNCHANGED <<now, dvars>>

\* -------------------------------------------------------- captureApplication
ApplicationFailure(message) == <<"Failed to capture application">> \o message

\* windows.find(...) of captureApplication: Godot first, then PyGame, each
\* only for the appType that asks for it.
FindApplication(windows, appType) ==
  LET godot == {i \in 1..Len(windows) :
                  /\ windows[i].title \notin {Undefined, ""}
                  /\ \/ Includes(windows[i].title, "Godot")
                     \/ Includes(windows[i].owner, "Godot")}
      pygame == {i \in 1..Len(windows) :
                   /\ windows[i].title \notin {Undefined, ""}
                   /\ \/ Includes(windows[i].title, "pygame")
                      \/ Includes(windows[i].title, "PyGame")}
      First(hits) == windows[CHOOSE i \in hits : \A j \in hits : i <= j]
  IN IF appType \in {"godot", "any"} /\ godot # {} THEN <<First(godot)>>
     ELSE IF appType \in {"pygame", "any"} /\ pygame # {} THEN <<First(pygame)>>
     ELSE <<>>

\* captureApplication(options) up to `await getWindowList()`.
captureApplication(c, options) ==
  /\ cpc[c] = "idle"
  /\ Invoke(c)
  /\ cpc' = [cpc EXCEPT ![c] = "appList"]
  /\ loc' = [loc EXCEPT ![c] =
       [NoLocals EXCEPT !.op = "application",
                        !.appType = IF options.appType = Absent THEN "any"
                                    ELSE options.appType[1],
                        !.windowTitle = IF options.windowTitle = Absent THEN Undefined
                                        ELSE options.windowTitle[1],
                        !.format = FormatOf(options),
                        !.quality = QualityOf(options),
                        !.saveToFile = SaveToFileOf(options)]]
  /\ cres' = [cres EXCEPT ![c] = NoResult]
  /\ fx' = [fx EXCEPT ![c] = <<>>]
  /\ UNCHANGED <<now, files, history, succeeded>>

\* { windowTitle: targetWindow.title, ...options } : a windowTitle among the
\* caller's options replaces the detected one.
DelegatedTitle(targetWindow, windowTitle) ==
  IF windowTitle = Undefined THEN targetWindow.title ELSE windowTitle

\* getWindowList() settled in captureApplication: pick the application's
\* window and hand over to captureWindow, which checks the title it is given
\* and calls getWindowList again.
ApplicationListed(c) ==
  /\ cpc[c] = "appList"
  /\ dpc[c] = "done"
  /\ IF doutcome[c] = "threw"
     THEN /\ ReleaseCall(c)
          /\ Throw(c, ApplicationFailure(<<"Window listing is only supported on macOS">>))
          /\ UNCHANGED fx
     ELSE LET found == FindApplication(dres[c], loc[c].appType)
          IN /\ Does(c, DiscoveryEffects(log[c]))
             /\ IF found = <<>>
                THEN /\ ReleaseCall(c)
                     /\ Throw(c, ApplicationFailure(<<"No application found">>))
                ELSE IF DelegatedTitle(found[1], loc[c].windowTitle) = ""
                THEN /\ ReleaseCall(c)
                     /\ Throw(c, <<"Window title is required">>)
                ELSE /\ dpc' = [dpc EXCEPT ![c] = Awaiting(1)]
                     /\ doutcome' = [doutcome EXCEPT ![c] = "pending"]
                     /\ dres' = [dres EXCEPT ![c] = <<>>]
                     /\ log' = [log EXCEPT ![c] = <<Event("start", 1, <<>>)>>]
                     /\ UNCHANGED <<platform, scriptFile, unlinks, loaded>>
                     /\ cpc' = [cpc EXCEPT ![c] = "winList"]
                     /\ loc' = [loc EXCEPT ![c] =
                          [loc[c] EXCEPT
                             !.op = "window",
                             !.windowTitle = DelegatedTitle(found[1], loc[c].windowTitle),
                             !.detected = found]]
                     /\ UNCHANGED <<cres, history, succeeded>>
  /\ UNCHANGED <<now, files>>

\* --------------------------------------------------------------- listWindows
ListFailure(message) == <<"Failed to list windows">> \o message

\* windows.map(win => ({id, title, application: win.owner.name}))
RECURSIVE MapWindows(_)
MapWindows(windows) ==
  IF windows = <<>> THEN <<>>
  ELSE << [id |-> Head(windows).id, title |-> Head(windows).title,
           application |-> Head(windows).owner] >> \o MapWindows(Tail(windows))

\* listWindows() up to `await getWindowList()`.
listWindows(c) ==
  /\ cpc[c] = "idle"
  /\ Invoke(c)
  /\ cpc' = [cpc EXCEPT ![c] = "lwList"]
  /\ loc' = [loc EXCEPT ![c] = [NoLocals EXCEPT !.op = "list"]]
  /\ cres' = [cres EXCEPT ![c] = NoResult]
  /\ fx' = [fx EXCEPT ![c] = <<>>]
  /\ UNCHANGED <<now, files, history, succeeded>>

\* getWindowList() settled in listWindows.
WindowsListed(c) ==
  /\ cpc[c] = "lwList"
  /\ dpc[c] = "done"
  /\ ReleaseCall(c)
  /\ IF doutcome[c] = "threw"
     THEN /\ Throw(c, ListFailure(<<"Window listing is only supported on macOS">>))
          /\ UNCHANGED fx
     ELSE /\ Reply(c, ReturnedList(MapWindows(dres[c])))
          /\ Does(c, DiscoveryEffects(log[c]))
  /\ UNCHANGED <<now, files>>

\* ------------------------------------------------------- resource handlers
\* getLatestScreenshot() : <<>> for null.
getLatestScreenshot(h) == IF h = <<>> THEN <<>> ELSE <<h[Len(h)]>>

\* The fields getScreenshotHistory keeps of a record.
HistoryItem(item) ==
  [ id |-> item.id, timestamp |-> item.timestamp, type |-> item.type,
    filePath |-> item.filePath, width |-> item.width, height |-> item.height,
    format |-> item.format ]

\* A history that is sliced without being reversed: the oldest records.
getScreenshotHistoryOldestFirst(h, limit) ==
  LET n == IF Len(h) < limit THEN Len(h) ELSE limit
  IN [i \in 1..n |-> HistoryItem(h[i])]

\* [...screenshotHistory].reverse().slice(0, limit).map(...)
getScreenshotHistory(h, limit) ==
  LET n == IF Len(h) < limit THEN Len(h) ELSE limit
  IN [i \in 1..n |-> HistoryItem(h[Len(h) + 1 - i])]

\* The default of getScreenshotHistory's limit.
DefaultLimit == 10

\* A handler that reads the file without the existsSync check.
ServeUnchecked(c, shot) ==
  IF shot.filePath # Null
  THEN /\ cpc' = [cpc EXCEPT ![c] = "resRead"]
       /\ loc' = [loc EXCEPT ![c] = [NoLocals EXCEPT !.op = "resource",
                                                     !.screenshot = <<shot>>]]
       /\ cres' = [cres EXCEPT ![c] = NoResult]
       /\ UNCHANGED <<history, succeeded>>
  ELSE Reply(c, ReturnedData(shot))

\* The part latest and history/{id} share, from the existsSync check on.
Serve(c, shot) ==
  IF shot.filePath # Null /\ shot.filePath \notin files
  THEN Reply(c, Failed(<<"Screenshot file no longer exists">>))
  ELSE IF shot.filePath # Null
  THEN /\ cpc' = [cpc EXCEPT ![c] = "resRead"]
       /\ loc' = [loc EXCEPT ![c] = [NoLocals EXCEPT !.op = "resource",
                                                     !.screenshot = <<shot>>]]
       /\ cres' = [cres EXCEPT ![c] = NoResult]
       /\ UNCHANGED <<history, succeeded>>
  ELSE Reply(c, ReturnedData(shot))

\* The handler of screenshot://latest up to its readFile or its return.
latestScreenshot(c) ==
  /\ cpc[c] = "idle"
  /\ LET shot == getLatestScreenshot(history)
     IN IF shot = <<>>
        THEN Reply(c, Failed(<<"No screenshots available">>))
        ELSE Serve(c, shot[1])
  /\ fx' = [fx EXCEPT ![c] = <<>>]
  /\ UNCHANGED <<now, files, dvars>>

\* The handler of screenshot://history.
screenshotHistory(c) ==
  /\ cpc[c] = "idle"
  /\ Reply(c, ReturnedList(getScreenshotHistory(history, DefaultLimit)))
  /\ fx' = [fx EXCEPT ![c] = <<>>]
  /\ UNCHANGED <<now, files, dvars>>

\* The handler of screenshot://history/{id}, params.id absent or given, up
\* to its readFile or its return.
screenshotById(c, id) ==
  /\ cpc[c] = "idle"
  /\ IF id = Absent
     THEN Reply(c, Failed(<<"Screenshot ID is required">>))
     ELSE LET shot == getScreenshotById(history, id[1])
          IN IF shot = <<>>
             THEN Reply(c, Failed(<<"Screenshot not found">>))
             ELSE Serve(c, shot[1])
  /\ fx' = [fx EXCEPT ![c] = <<>>]
  /\ UNCHANGED <<now, files, dvars>>

\* fs.readFile(screenshot.filePath) of a resource handler settles.
ResourceReadDone(c, ok) ==
  /\ cpc[c] = "resRead"
  /\ IF ok /\ loc[c].screenshot[1].filePath \in files
     THEN Reply(c, ReturnedData(loc[c].screenshot[1]))
     ELSE Reply(c, Failed(<<"ENOENT">>))
  /\ UNCHANGED <<now, files, fx, dvars>>

\* Somebody else removes a file from the screenshots directory.
RemoveFile(path) ==
  /\ path \in files
  /\ files' = files \ {path}
  /\ UNCHANGED <<now, history, cpc, loc, cres, succeeded, fx, dvars>>

\* --------------------------------------------------------- what callers send
FullScreenOptions ==
  { Options(f, Absent, Absent) : f \in {Absent, Given("jpg")} }

\* A long run of captures kept in memory.
RingOptions == { Options(Absent, Absent, Given(FALSE)) }

Rands == 0..MaxRand
Widths == {640}
Heights == {480}

CInit ==
  /\ now = 0
  /\ history = <<>>
  /\ files = {}
  /\ cpc = [c \in Calls |-> "idle"]
  /\ loc = [c \in Calls |-> NoLocals]
  /\ cres = [c \in Calls |-> NoResult]
  /\ succeeded = 0
  /\ fx = [c \in Calls |-> <<>>]

WindowOptions ==
  { [NoOptions EXCEPT !.windowTitle = t, !.format = f] :
      t \in {Absent, Given("Godot")}, f \in {Absent, Given("jpg")} }

RegionOptions ==
  { [NoOptions EXCEPT !.x = Given(0), !.y = Given(0), !.width = w, !.height = Given(480),
                      !.format = f] :
      w \in {Absent, Given(640)}, f \in {Absent, Given("jpg")} }

\* What the OS facilities answer while callers capture windows.
CaptureSwiftStdouts == { << <<"77", "Godot", "Godot Engine", "10", "0", "640", "480">> >> }
CaptureAppleScriptStdouts == { <<>> }
CaptureScreencaptureStderrs == { <<>> }
CaptureFallbackStdouts == { <<"Godot">> }

\* The capture service with `callers` calling concurrently, `oks` the
\* outcomes of file, image and capture-tool operations (TRUE: success) and
\* `errors` the outcomes of the discovery commands (TRUE: failure).
CaptureNext(callers, oks, errors) ==
  \/ /\ succeeded < MaxCaptures
     /\ unlinks < NumCalls
     /\ \/ \E c \in callers, options \in FullScreenOptions : captureFullScreen(c, options)
        \/ \E c \in callers, options \in WindowOptions : captureWindow(c, options)
        \/ \E c \in callers, options \in RegionOptions, captured \in oks :
             captureRegion(c, options, captured)
  \/ \E c \in callers, ok \in oks, r \in Rands : ScreenshotDone(c, ok, "png", r)
  \/ \E c \in callers, ok \in oks, r \in Rands : FullScreenJpegDone(c, ok, r)
  \/ \E c \in callers, ok \in oks, r \in Rands : FullScreenWriteDone(c, ok, r)
  \/ \E c \in callers, ok \in oks, w \in Widths, h \in Heights :
       FullScreenMetaDone(c, ok, w, h)
  \/ \E c \in callers, captured \in oks : WindowListed(c, captured)
  \/ \E c \in callers, ok \in oks : WindowReadDone(c, ok)
  \/ \E c \in callers, ok \in oks : WindowJpegDone(c, ok)
  \/ \E c \in callers, ok \in oks : WindowWriteDone(c, ok)
  \/ \E c \in callers, ok \in oks : WindowRemoveDone(c, ok)
  \/ \E c \in callers, ok \in oks, w \in Widths, h \in Heights, r \in Rands :
       WindowMetaDone(c, ok, w, h, r)
  \/ \E c \in callers, ok \in oks : RegionReadDone(c, ok)
  \/ \E c \in callers, ok \in oks : RegionJpegDone(c, ok)
  \/ \E c \in callers, ok \in oks : RegionWriteDone(c, ok)
  \/ \E c \in callers, ok \in oks, r \in Rands : RegionRemoveDone(c, ok, r)
  \/ \E c \in callers, ok \in oks, r \in Rands : RegionCropDone(c, ok, r)
  \/ \E c \in callers, ok \in oks, r \in Rands : RegionCropWriteDone(c, ok, r)
  \/ Tick
  \/ /\ \/ \E d \in callers, ok \in oks : SwiftWriteDone(d, ok)
        \/ \E d \in callers, ok \in oks : SwiftChmod(d, ok)
        \/ \E d \in callers : SwiftLoad(d)
        \/ \E d \in callers, error \in errors, stdout \in CaptureSwiftStdouts :
             SwiftExecDone(d, error, stdout)
        \/ Unlink
        \/ \E d \in callers, error \in errors, stdout \in CaptureAppleScriptStdouts :
             AppleScriptDone(d, error, stdout)
        \/ \E d \in callers, error \in errors, stderr \in CaptureScreencaptureStderrs :
             ScreencaptureDone(d, error, stderr)
        \/ \E d \in callers, error \in errors, stdout \in CaptureFallbackStdouts :
             FallbackDone(d, error, stdout)
     /\ UNCHANGED cvars

\* Concurrent callers whose file, image and capture-tool operations succeed.
CNext == CaptureNext(Calls, {TRUE}, BOOLEAN)

\* A burst of full-screen captures kept in memory, all within one
\* millisecond and with Math.random() returning the same value.
RingNext ==
  \/ /\ succeeded < HistoryLimit + MaxExtra
     /\ \E c \in Calls, options \in RingOptions : captureFullScreen(c, options)
  \/ \E c \in Calls, ok \in BOOLEAN : ScreenshotDone(c, ok, "png", 0)
  \/ \E c \in Calls, ok \in BOOLEAN, w \in Widths, h \in Heights :
       FullScreenMetaDone(c, ok, w, h)

\* The client of the specifications with one client.
Client == 1

\* A long run of captures of one client that reads latest and history in
\* between; the draws of Math.random cycle through 0..MaxRand, so that a
\* record differs from the one before it.
AccessNext ==
  \/ /\ succeeded < HistoryLimit + MaxExtra
     /\ \E options \in RingOptions : captureFullScreen(Client, options)
  \/ \E ok \in BOOLEAN : ScreenshotDone(Client, ok, "png", succeeded % (MaxRand + 1))
  \/ \E ok \in BOOLEAN, w \in Widths, h \in Heights : FullScreenMetaDone(Client, ok, w, h)
  \/ latestScreenshot(Client)
  \/ screenshotHistory(Client)

\* One client asking for window captures, every operation free to fail.
WindowTitles ==
  {Absent, Given(""), Given("Godot"), Given("Engine"), Given("Screenshot"), Given("Nope")}

WindowRequests ==
  { [NoOptions EXCEPT !.windowTitle = t, !.format = f] :
      t \in WindowTitles, f \in {Absent, Given("jpg")} }

WindowSwiftLines ==
  SwiftLines \cup { <<"78", "Godot", "Godot Window", "0", "0", "640", "480">> }
WindowSwiftStdouts == SeqsUpTo(WindowSwiftLines, MaxLines)

WindowNext ==
  \/ /\ succeeded < MaxCaptures
     /\ unlinks < NumCalls
     /\ \E options \in WindowRequests : captureWindow(Client, options)
  \/ \E captured \in BOOLEAN : WindowListed(Client, captured)
  \/ \E ok \in BOOLEAN : WindowReadDone(Client, ok)
  \/ \E ok \in BOOLEAN : WindowJpegDone(Client, ok)
  \/ \E ok \in BOOLEAN : WindowWriteDone(Client, ok)
  \/ \E ok \in BOOLEAN : WindowRemoveDone(Client, ok)
  \/ \E ok \in BOOLEAN, w \in Widths, h \in Heights :
       WindowMetaDone(Client, ok, w, h, 0)
  \/ /\ \/ \E ok \in BOOLEAN : SwiftWriteDone(Client, ok)
        \/ \E ok \in BOOLEAN : SwiftChmod(Client, ok)
        \/ SwiftLoad(Client)
        \/ \E error \in BOOLEAN, stdout \in WindowSwiftStdouts :
             SwiftExecDone(Client, error, stdout)
        \/ Unlink
        \/ \E error \in BOOLEAN, stdout \in CaptureAppleScriptStdouts :
             AppleScriptDone(Client, error, stdout)
        \/ \E error \in BOOLEAN, stderr \in CaptureScreencaptureStderrs :
             ScreencaptureDone(Client, error, stderr)
        \/ \E error \in BOOLEAN, stdout \in CaptureFallbackStdouts :
             FallbackDone(Client, error, stdout)
     /\ UNCHANGED cvars

\* One client asking for application captures, every operation free to
\* fail and the window list free to change from one discovery to the next.
ApplicationRequests ==
  { [NoOptions EXCEPT !.appType = a, !.windowTitle = t, !.format = Given("jpg")] :
      a \in {Absent, Given("godot"), Given("pygame")},
      t \in {Absent, Given(""), Given("Engine")} }

ApplicationSwiftLines ==
  { <<"77", "Godot", "Godot Engine", "10", "0", "640", "480">>,
    <<"80", "Godot", "My Page", "0", "0", "640", "480">>,
    <<"1234", "Safari", "My Page", "0", "0", "640", "480">> }
ApplicationSwiftStdouts == SeqsUpTo(ApplicationSwiftLines, MaxLines)

ApplicationNext ==
  \/ /\ succeeded < MaxCaptures
     /\ unlinks < NumCalls
     /\ \E options \in ApplicationRequests : captureApplication(Client, options)
  \/ ApplicationListed(Client)
  \/ \E captured \in BOOLEAN : WindowListed(Client, captured)
  \/ \E ok \in BOOLEAN : WindowReadDone(Client, ok)
  \/ \E ok \in BOOLEAN : WindowJpegDone(Client, ok)
  \/ \E ok \in BOOLEAN : WindowWriteDone(Client, ok)
  \/ \E ok \in BOOLEAN : WindowRemoveDone(Client, ok)
  \/ \E ok \in BOOLEAN, w \in Widths, h \in Heights :
       WindowMetaDone(Client, ok, w, h, 0)
  \/ /\ \/ \E ok \in BOOLEAN : SwiftWriteDone(Client, ok)
        \/ \E ok \in BOOLEAN : SwiftChmod(Client, ok)
        \/ SwiftLoad(Client)
        \/ \E error \in BOOLEAN, stdout \in ApplicationSwiftStdouts :
             SwiftExecDone(Client, error, stdout)
        \/ Unlink
        \/ \E error \in BOOLEAN, stdout \in CaptureAppleScriptStdouts :
             AppleScriptDone(Client, error, stdout)
        \/ \E error \in BOOLEAN, stderr \in CaptureScreencaptureStderrs :
             ScreencaptureDone(Client, error, stderr)
        \/ \E error \in BOOLEAN, stdout \in CaptureFallbackStdouts :
             FallbackDone(Client, error, stdout)
     /\ UNCHANGED cvars

\* One client asking for region captures, every operation free to fail.
RegionRequests ==
  { [NoOptions EXCEPT !.x = x, !.y = y, !.width = w, !.height = h, !.format = f] :
      x \in {Absent, Given(0)}, y \in {Absent, Given(0)},
      w \in {Absent, Given(640)}, h \in {Absent, Given(480)},
      f \in {Absent, Given("jpg")} }

RegionNext ==
  \/ /\ succeeded < MaxCaptures
     /\ \E options \in RegionRequests, captured \in BOOLEAN :
          captureRegion(Client, options, captured)
  \/ \E ok \in BOOLEAN : RegionReadDone(Client, ok)
  \/ \E ok \in BOOLEAN : RegionJpegDone(Client, ok)
  \/ \E ok \in BOOLEAN : RegionWriteDone(Client, ok)
  \/ \E ok \in BOOLEAN : RegionRemoveDone(Client, ok, 0)
  \/ \E ok \in BOOLEAN : ScreenshotDone(Client, ok, "png", 0)
  \/ \E ok \in BOOLEAN, w \in Widths, h \in Heights : FullScreenMetaDone(Client, ok, w, h)
  \/ \E ok \in BOOLEAN : RegionCropDone(Client, ok, 0)
  \/ \E ok \in BOOLEAN : RegionCropWriteDone(Client, ok, 0)
  \/ Tick

\* One client using every tool and resource of the server, one request at
\* a time, every operation free to fail and files free to disappear.
ServerFullScreenRequests ==
  { Options(Given("jpg"), Absent, Absent), Options(Absent, Absent, Given(FALSE)) }

ServerWindowRequests ==
  { [NoOptions EXCEPT !.windowTitle = t, !.format = Given("jpg")] :
      t \in {Absent, Given("Godot")} }

ServerRegionRequests ==
  { [NoOptions EXCEPT !.x = x, !.y = Given(0), !.width = Given(640), !.height = Given(480),
                      !.format = Given("jpg")] : x \in {Absent, Given(0)} }

ServerApplicationRequests ==
  { [NoOptions EXCEPT !.appType = a, !.format = Given("jpg")] :
      a \in {Absent, Given("pygame")} }

\* The ids a client asks history/{id} for: none, one that captures are
\* given, one that no capture is given.
ServerIds == {Absent, Given(generateId(0, 0)), Given(generateId(MaxClock + 1, 0))}

ServerNext ==
  \/ /\ succeeded < MaxCaptures
     /\ unlinks < NumCalls
     /\ \/ \E options \in ServerFullScreenRequests : captureFullScreen(Client, options)
        \/ \E options \in ServerWindowRequests : captureWindow(Client, options)
        \/ \E options \in ServerApplicationRequests : captureApplication(Client, options)
        \/ listWindows(Client)
        \/ \E options \in ServerRegionRequests, captured \in BOOLEAN :
             captureRegion(Client, options, captured)
  \/ latestScreenshot(Client)
  \/ screenshotHistory(Client)
  \/ \E id \in ServerIds : screenshotById(Client, id)
  \/ \E ok \in BOOLEAN : ResourceReadDone(Client, ok)
  \/ \E path \in files : RemoveFile(path)
  \/ \E ok \in BOOLEAN : ScreenshotDone(Client, ok, "png", 0)
  \/ \E ok \in BOOLEAN : FullScreenJpegDone(Client, ok, 0)
  \/ \E ok \in BOOLEAN : FullScreenWriteDone(Client, ok, 0)
  \/ \E ok \in BOOLEAN, w \in Widths, h \in Heights : FullScreenMetaDone(Client, ok, w, h)
  \/ ApplicationListed(Client)
  \/ WindowsListed(Client)
  \/ \E captured \in BOOLEAN : WindowListed(Client, captured)
  \/ \E ok \in BOOLEAN : WindowReadDone(Client, ok)
  \/ \E ok \in BOOLEAN : WindowJpegDone(Client, ok)
  \/ \E ok \in BOOLEAN : WindowWriteDone(Client, ok)
  \/ \E ok \in BOOLEAN : WindowRemoveDone(Client, ok)
  \/ \E ok \in BOOLEAN, w \in Widths, h \in Heights : WindowMetaDone(Client, ok, w, h, 0)
  \/ \E ok \in BOOLEAN : RegionReadDone(Client, ok)
  \/ \E ok \in BOOLEAN : RegionJpegDone(Client, ok)
  \/ \E ok \in BOOLEAN : RegionWriteDone(Client, ok)
  \/ \E ok \in BOOLEAN : RegionRemoveDone(Client, ok, 0)
  \/ \E ok \in BOOLEAN : RegionCropDone(Client, ok, 0)
  \/ \E ok \in BOOLEAN : RegionCropWriteDone(Client, ok, 0)
  \/ /\ \/ \E ok \in BOOLEAN : SwiftWriteDone(Client, ok)
        \/ \E ok \in BOOLEAN : SwiftChmod(Client, ok)
        \/ SwiftLoad(Client)
        \/ \E error \in BOOLEAN, stdout \in CaptureSwiftStdouts :
             SwiftExecDone(Client, error, stdout)
        \/ Unlink
        \/ \E error \in BOOLEAN, stdout \in CaptureAppleScriptStdouts :
             AppleScriptDone(Client, error, stdout)
        \/ \E error \in BOOLEAN, stderr \in CaptureScreencaptureStderrs :
             ScreencaptureDone(Client, error, stderr)
        \/ \E error \in BOOLEAN, stdout \in CaptureFallbackStdouts :
             FallbackDone(Client, error, stdout)
     /\ UNCHANGED cvars

vars == <<dvars, cvars>>
Init == DInit /\ CInit
Next == DNext /\ UNCHANGED cvars
Spec == Init /\ [][Next]_vars
\* Every file operation and external process of a strategy completes: the
\* callback or continuation that waits for it is eventually run.
Completion ==
  \A d \in Calls :
    /\ WF_dvars(\E ok \in BOOLEAN : SwiftWriteDone(d, ok))
    /\ WF_dvars(\E ok \in BOOLEAN : SwiftChmod(d, ok))
    /\ WF_dvars(SwiftLoad(d))
    /\ WF_dvars(\E error \in BOOLEAN, stdout \in SwiftStdouts : SwiftExecDone(d, error, stdout))
    /\ WF_dvars(\E error \in BOOLEAN, stdout \in AppleScriptStdouts :
                 AppleScriptDone(d, error, stdout))
    /\ WF_dvars(\E error \in BOOLEAN, stderr \in ScreencaptureStderrs :
                 ScreencaptureDone(d, error, stderr))
    /\ WF_dvars(\E error \in BOOLEAN, stdout \in FallbackStdouts :
                 FallbackDone(d, error, stdout))

SpecCompletion == Init /\ [][Next]_vars /\ Completion
SpecCapture == Init /\ [][CNext]_vars
SpecRing == Init /\ [][RingNext]_vars
SpecAccess == Init /\ [][AccessNext]_vars
SpecWindow == Init /\ [][WindowNext]_vars
SpecRegion == Init /\ [][RegionNext]_vars
SpecApplication == Init /\ [][ApplicationNext]_vars
SpecServer == Init /\ [][ServerNext]_vars

\* ======================================================== discovery claims
Returned(d) == dpc[d] = "done" /\ doutcome[d] = "returned"

\* The positions of log[d] where a strategy resolved with a non-empty array.
NonEmptyAt(d) == {i \in 1..Len(log[d]) : log[d][i].ev = "resolve" /\ log[d][i].out # <<>>}

FirstNonEmpty(d) == CHOOSE i \in NonEmptyAt(d) : \A j \in NonEmptyAt(d) : i <= j

\* C1: when strategy k is the first to resolve with a non-empty array, the
\* call returns exactly that array: the same records in the same order, and
\* so nothing that only another strategy produced.
C1_FirstNonEmptyWins ==
  \A d \in Calls :
    (Returned(d) /\ NonEmptyAt(d) # {}) => dres[d] = log[d][FirstNonEmpty(d)].out

\* A call returned what strategy 3 found after strategies 1 and 2 found nothing.
C1_Witness ==
  \E d \in Calls :
    /\ Returned(d)
    /\ NonEmptyAt(d) # {}
    /\ log[d][FirstNonEmpty(d)].k = 3
    /\ dres[d] # <<>>

\* Strategy 4 of call d ran and found no application: its command failed
\* (the sentinel branch) or its output named no process.
AllFoundNothing(d) ==
  /\ Returned(d)
  /\ \E i \in 1..Len(log[d]) :
       /\ log[d][i].ev = "resolve"
       /\ log[d][i].k = 4
       /\ log[d][i].out \in {<<>>, <<Sentinel>>}

\* C2: when all four strategies find nothing, the call returns exactly one
\* record, the sentinel.
C2_SentinelWhenNothingFound ==
  \A d \in Calls : AllFoundNothing(d) => dres[d] = <<Sentinel>>

\* C3: every finished call returned, and returned a non-empty array.
C3_AlwaysSucceeds ==
  \A d \in Calls :
    dpc[d] = "done" => (doutcome[d] = "returned" /\ Len(dres[d]) > 0)

Starts(d, k) == {i \in 1..Len(log[d]) : log[d][i].ev = "start" /\ log[d][i].k = k}
Ends(d) == {i \in 1..Len(log[d]) : log[d][i].ev # "start"}
AllStarts(d) == {i \in 1..Len(log[d]) : log[d][i].ev = "start"}

\* C4: strategy 1 is started first; strategy k + 1 is started only right
\* after strategy k resolved with an empty array; every end follows the start
\* of the same strategy; no strategy is started twice; and at most one
\* strategy of a call is in progress.
C4_StrictSequence ==
  \A d \in Calls :
    /\ \A i \in 1..Len(log[d]) :
         IF log[d][i].ev = "start"
         THEN IF i = 1 THEN log[d][i].k = 1
              ELSE /\ log[d][i - 1].ev = "resolve"
                   /\ log[d][i - 1].out = <<>>
                   /\ log[d][i].k = log[d][i - 1].k + 1
         ELSE /\ i > 1
              /\ log[d][i - 1].ev = "start"
              /\ log[d][i - 1].k = log[d][i].k
    /\ \A k \in 1..4 : Cardinality(Starts(d, k)) <= 1
    /\ Cardinality(AllStarts(d)) - Cardinality(Ends(d)) \in {0, 1}
    /\ (dpc[d] \in {"idle", "done"}) <=> (Cardinality(AllStarts(d)) = Cardinality(Ends(d)))

\* A call went through all four strategies, in order, and returned.
C4_Witness ==
  \E d \in Calls :
    /\ Returned(d)
    /\ \A k \in 1..4 : Cardinality(Starts(d, k)) = 1

\* C5: no strategy executor ever rejects.
C5_StrategiesNeverReject ==
  \A d \in Calls : \A i \in 1..Len(log[d]) : log[d][i].ev # "reject"

\* ------------------------------------------------ claims: the history ring
\* C6: whatever captures succeeded or failed, screenshotHistory holds at
\* most 100 records.
C6_HistoryBounded == Len(history) <= HistoryLimit

\* More than 100 captures succeeded, one failed, and the ring is full.
C6_Witness ==
  /\ succeeded > HistoryLimit
  /\ Len(history) = HistoryLimit
  /\ \E c \in Calls : cres[c].kind = "threw"

\* C7: a capture appended to a full ring removes exactly the oldest record,
\* keeps the other 99 in order, and the id of the removed record is then
\* not found by getScreenshotById.
C7_OldestFirstEviction ==
  [][ (Len(history) = HistoryLimit /\ succeeded' = succeeded + 1)
        => /\ Len(history') = HistoryLimit
           /\ SubSeq(history', 1, HistoryLimit - 1) = Tail(history)
           /\ getScreenshotById(history', Head(history).id) = <<>> ]_vars

\* Caller c's capture function returns its screenshotData in this step.
Completes(c) ==
  \/ cpc[c] # "idle" /\ cpc'[c] = "idle" /\ cres'[c].kind = "returned"
  \/ loc[c].nested /\ cpc'[c] = "regCrop"

\* C8: callers interleave at their awaits, and still every capture that
\* returns has appended exactly one record (evicting one when the ring is
\* full), a step of anything else leaves the ring alone, and the ring never
\* holds more than 100 records.
C8_AppendIsAtomic ==
  [][ LET done == {c \in Calls : Completes(c)}
          kept == IF Len(history) >= HistoryLimit THEN Tail(history) ELSE history
      IN /\ Cardinality(done) <= 1
         /\ done = {} => history' = history
         /\ done # {} => /\ Len(history') = Len(kept) + 1
                          /\ SubSeq(history', 1, Len(kept)) = kept
         /\ Len(history') <= HistoryLimit ]_vars

\* Every caller is suspended at an await, about to append to a full ring.
C8_Witness ==
  /\ Len(history) = HistoryLimit
  /\ \A c \in Calls : cpc[c] = "fsMeta"

\* ------------------------------------------------- claims: paths and ids
\* C9: two capture calls in flight never use the same final file path or
\* the same temp file path.
C9_PathsCollisionFree ==
  \A c1, c2 \in Calls :
    c1 # c2 =>
      /\ loc[c1].tempFilePath # Null => loc[c1].tempFilePath # loc[c2].tempFilePath
      /\ loc[c1].filePath # Null => loc[c1].filePath # loc[c2].filePath

\* C10: the records of screenshotHistory have pairwise distinct ids, so
\* getScreenshotById finds, for the id of a record, that record.
C10_IdsUnique ==
  /\ \A i, j \in 1..Len(history) : i # j => history[i].id # history[j].id
  /\ \A i \in 1..Len(history) :
        getScreenshotById(history, history[i].id) = <<history[i]>>

\* --------------------------------------------- claims: concurrent discovery
\* C11: a getWindowList call is not disturbed by the other calls: the helper
\* script its Swift strategy wrote is still there when the call makes it
\* executable and when the child process opens it, so the strategy fails
\* only when the OS makes it fail.
C11_DiscoveryCallsIndependent ==
  \A d \in Calls :
    /\ dpc[d] = "swChmod" => scriptFile
    /\ dpc[d] = "swExec" => loaded[d]

\* ------------------------------------------- claims: the records returned
\* The id carries the prefix of a fallback ('app_') or placeholder ('dummy_')
\* record.
HasPlaceholderPrefix(id) == id \in {AppId(i) : i \in 0..3} \cup {Sentinel.id}

\* C20: every record of a result that getWindowList returns has a non-empty
\* title string, or an id with the 'app_' or 'dummy_' prefix.
C20_TitledOrPlaceholder ==
  \A d \in Calls :
    Returned(d) =>
      \A i \in 1..Len(dres[d]) :
        \/ dres[d][i].title \notin {Undefined, ""}
        \/ HasPlaceholderPrefix(dres[d][i].id)

\* ------------------------------------------------- claims: captureWindow
\* The record captureWindow selects for caller c, as a sequence of at most one.
Selected(c) == FindWindow(dres[c], loc[c].windowTitle)

\* Caller c's captureWindow resumes after getWindowList in this step, with a
\* list of windows in hand.
Dispatches(c) ==
  /\ cpc[c] = "winList" /\ cpc'[c] # "winList"
  /\ doutcome[c] = "returned"

\* The last thing the request of caller c did.
LastEffect(c) == fx'[c][Len(fx'[c])]

\* C12: when the selected record's id starts with 'app_', screencapture is
\* run without the window flag, and the call fails only if that command
\* fails; for every other selected record it is run with -l and that id.
C12_AddressingMode ==
  [][ \A c \in Calls :
        (Dispatches(c) /\ Selected(c) # <<>>) =>
          LET id == Selected(c)[1].id
          IN /\ fx'[c] # <<>>
             /\ LastEffect(c).ev = "execSync"
             /\ LastEffect(c).args = IF id \in {AppId(i) : i \in 0..3}
                                     THEN <<"screencapture">>
                                     ELSE <<"screencapture", "-l", id>>
             /\ cres'[c].kind = "threw" =>
                  cres'[c].error = WindowFailure(ScreencaptureFailure("execSync")) ]_vars

\* A window found by the process fallback was captured as the full screen
\* and the call goes on to read the image.
C12_Witness ==
  \E c \in Calls :
    /\ cpc[c] = "winRead"
    /\ loc[c].windowId = AppId(0)
    /\ fx[c][Len(fx[c])] = Effect("execSync", <<"screencapture">>)

\* The positions of the windows caller c discovered whose title is a string
\* that contains the requested windowTitle.
Containing(c) ==
  {i \in 1..Len(dres[c]) :
     /\ dres[c][i].title \notin {Undefined, ""}
     /\ Includes(dres[c][i].title, loc[c].windowTitle)}

\* C13: when some discovered title contains windowTitle, captureWindow
\* captures the first such record in the order of the discovery result: it
\* runs the capture tool and carries on with that record's id.
C13_FirstSubstringMatch ==
  [][ \A c \in Calls :
        (Dispatches(c) /\ Containing(c) # {}) =>
          LET first == CHOOSE i \in Containing(c) : \A j \in Containing(c) : i <= j
          IN /\ fx'[c] # <<>>
             /\ LastEffect(c) = Effect("execSync", ScreencaptureCommand(dres[c][first].id))
             /\ cpc'[c] # "idle" => /\ cpc'[c] = "winRead"
                                    /\ loc'[c].windowId = dres[c][first].id ]_vars

\* "Engine" was asked for and the window titled "Godot Engine" is captured.
C13_Witness ==
  \E c \in Calls :
    /\ cpc[c] = "winRead"
    /\ loc[c].windowTitle = "Engine"
    /\ loc[c].windowId = "77"

NotFound == WindowFailure(<<"Window not found">>)

\* C14: when no discovered title contains windowTitle, capture_window
\* answers with the not-found error, and the request has created no
\* temporary file, run no capture tool and written no output file; the
\* files on disk and the history are as they were.
C14_NotFoundHasNoEffect ==
  [][ \A c \in Calls :
        (Dispatches(c) /\ Containing(c) = {}) =>
          /\ cres'[c] = Threw(NotFound)
          /\ ToolResponse(cres'[c]).success = FALSE
          /\ ToolResponse(cres'[c]).error = NotFound
          /\ \A i \in 1..Len(fx'[c]) :
                /\ fx'[c][i].ev # "writeFile"
                /\ fx'[c][i].args[1] \notin {"screencapture", StrategyCommand(3)}
          /\ files' = files
          /\ history' = history ]_vars

\* The messages of the validation errors: a required parameter is missing,
\* or no discovered window has the title asked for.
ValidationErrors ==
  { <<"Window title is required">>,
    <<"Region coordinates (x, y, width, height) are required">>,
    NotFound }

\* C15: a request that ends with a validation error is answered with
\* {success: false, error} and has started no external process.
C15_ValidationBeforeSpawn ==
  \A c \in Calls :
    (cpc[c] = "idle" /\ cres[c].kind = "threw" /\ cres[c].error \in ValidationErrors) =>
      /\ ToolResponse(cres[c]).settled = "resolved"
      /\ ToolResponse(cres[c]).success = FALSE
      /\ \A i \in 1..Len(fx[c]) : fx[c][i].ev \notin {"exec", "execSync"}

\* ------------------------------------------------- claims: captureRegion
RegionRequired == <<"Region coordinates (x, y, width, height) are required">>

\* C16: a capture_region request that lacks one of x, y, width, height is
\* answered with the validation error, having run no command and written no
\* file, with the files on disk and the history as they were; a request
\* that has all four, 0 included, passes validation.
C16_RegionValidation ==
  [][ \A c \in Calls, options \in RegionRequests, captured \in BOOLEAN :
        captureRegion(c, options, captured) =>
          IF \E v \in {options.x, options.y, options.width, options.height} : v = Absent
          THEN /\ cres'[c] = Threw(RegionRequired)
               /\ ToolResponse(cres'[c]).success = FALSE
               /\ cpc'[c] = "idle"
               /\ fx'[c] = <<>>
               /\ files' = files
               /\ history' = history
          ELSE /\ cres'[c] # Threw(RegionRequired)
               /\ platform = "darwin" =>
                    fx'[c] = <<Effect("execSync", <<"screencapture", "-R">>)>>
               /\ platform # "darwin" => cpc'[c] = "fsShot" ]_vars

\* A region whose x and y are 0 has passed validation and been captured.
C16_Witness ==
  \E c \in Calls :
    /\ cpc[c] = "regRead"
    /\ loc[c].region = <<0, 0, 640, 480>>

SameImage(a, b) ==
  /\ a.width = b.width
  /\ a.height = b.height
  /\ a.format = b.format

\* C18: when a capture has just returned a screenshot (its record is the
\* newest of the ring, no capture since), the record that history/{id} finds
\* for the returned id has the width, height and format the capture returned.
C18_RoundTrip ==
  \A c \in Calls :
    ( /\ cpc[c] = "idle"
      /\ cres[c].kind = "returned"
      /\ cres[c].screenshot # <<>>
      /\ history # <<>>
      /\ history[Len(history)] = cres[c].screenshot[1] ) =>
      LET shot == getScreenshotById(history, cres[c].screenshot[1].id)
      IN /\ shot # <<>>
         /\ SameImage(shot[1], cres[c].screenshot[1])

\* C19: a read of history/{id} with an id answers "not found" when the ring
\* has no record with the id, and "file no longer exists" when the record
\* found has a file path and no such file is on disk; it returns the record
\* when the record has no file path, and reads the file when it is on disk;
\* that read, the file still there, returns the record.
C19_ByIdOutcomes ==
  [][ /\ \A id \in ServerIds \ {Absent} :
           screenshotById(Client, id) =>
             LET shot == getScreenshotById(history, id[1])
                 reply == cres'[Client]
             IN /\ (\A i \in 1..Len(history) : history[i].id # id[1]) =>
                     reply = Failed(<<"Screenshot not found">>)
                /\ (\E i \in 1..Len(history) : history[i].id = id[1]) =>
                     /\ shot # <<>>
                     /\ (shot[1].filePath # Null /\ shot[1].filePath \notin files) =>
                          /\ reply = Failed(<<"Screenshot file no longer exists">>)
                          /\ ~ToolResponse(reply).success
                     /\ shot[1].filePath = Null =>
                          /\ reply = ReturnedData(shot[1])
                          /\ ToolResponse(reply).success
                     /\ (shot[1].filePath # Null /\ shot[1].filePath \in files) =>
                          /\ cpc'[Client] = "resRead"
                          /\ loc'[Client].screenshot = shot
      /\ (ResourceReadDone(Client, TRUE) /\ loc[Client].screenshot[1].filePath \in files) =>
           /\ cres'[Client] = ReturnedData(loc[Client].screenshot[1])
           /\ ToolResponse(cres'[Client]).success
    ]_vars

\* A capture wrote its file, the file was removed, and a read of the ring
\* has been answered "file no longer exists".
C19_Witness ==
  /\ cpc[Client] = "idle"
  /\ cres[Client] = Failed(<<"Screenshot file no longer exists">>)
  /\ \E i \in 1..Len(history) :
       /\ history[i].id = generateId(0, 0)
       /\ history[i].filePath # Null
       /\ history[i].filePath \notin files

\* ------------------------------------------------------ claims: the parsers
\* Call d has, in this step, logged that strategy k resolved with out.
ResolvesWith(d, k, out) ==
  \E i \in 1..Len(log'[d]) : i > Len(log[d]) /\ log'[d][i] = Event("resolve", k, out)

\* A field that is a decimal number.
IsNumeric(s) == s \in {"0", "2", "10", "12", "77", "78", "80", "480", "640", "1234"}

\* A line of the Swift helper as its script prints it: id|owner|name|x|y|w|h.
WellFormedSwift(line) ==
  /\ Len(line) = 7
  /\ IsNumeric(line[1])
  /\ \A i \in 4..7 : IsNumeric(line[i])

\* A line of the AppleScript as its script prints it: app|window|id.
WellFormedAppleScript(line) == Len(line) = 3 /\ IsNumeric(trim(line[3]))

\* A record with its four fields, each of its type.
TypedRecord(r) ==
  /\ r.id # Undefined /\ IsNumeric(r.id)
  /\ r.title # Undefined
  /\ r.owner # Undefined
  /\ Len(r.bounds) = 4
  /\ \A i \in 1..4 : r.bounds[i] # NaN

\* C21: what the Swift and the AppleScript strategy resolve with is what
\* they resolve with when the malformed lines are taken out of their output,
\* and every record of it has its four fields, each of its type.
C21_MalformedLinesDropped ==
  [][ \A d \in Calls :
        /\ \A stdout \in SwiftStdouts :
             (SwiftExecDone(d, FALSE, stdout) /\ loaded[d]) =>
               LET out == SwiftResolve(FALSE, SelectSeq(stdout, WellFormedSwift))
               IN /\ ResolvesWith(d, 1, out)
                  /\ \A i \in 1..Len(out) : TypedRecord(out[i])
        /\ \A stdout \in AppleScriptStdouts :
             (AppleScriptDone(d, FALSE, stdout) /\ ~ErrorPrefixed(TrimSplit(stdout)[1][1])) =>
               LET out == AppleScriptResolve(FALSE, SelectSeq(stdout, WellFormedAppleScript))
               IN /\ ResolvesWith(d, 2, out)
                  /\ \A i \in 1..Len(out) : TypedRecord(out[i])
    ]_vars

\* The record expected for the line 1234|Safari|My Page.
MyPageRecord == WindowRecord("1234", "My Page", "Safari", ZeroBounds)

\* C22: a strategy whose output is the one line 1234|Safari|My Page resolves
\* with the one record id "1234", owner name "Safari", title "My Page" and
\* bounds 0, 0, 0, 0.
C22_ThreeFieldLine ==
  [][ \A d \in Calls :
        /\ (SwiftExecDone(d, FALSE, << <<"1234", "Safari", "My Page">> >>) /\ loaded[d]) =>
             ResolvesWith(d, 1, <<MyPageRecord>>)
        /\ AppleScriptDone(d, FALSE, << <<"1234", "Safari", "My Page">> >>) =>
             ResolvesWith(d, 2, <<MyPageRecord>>)
    ]_vars

\* ------------------------------------------------- claims: the temp file
\* C23: when fs.remove of the temp file fails, the image read, converted and
\* written, the call does not fail: capture_window goes on to its metadata,
\* capture_region returns its screenshot and the ring has one record more.
C23_CleanupFailureTolerated ==
  [][ \A c \in Calls :
        /\ WindowRemoveDone(c, FALSE) =>
             /\ cres'[c].kind # "threw"
             /\ cpc'[c] = "winMeta"
        /\ RegionRemoveDone(c, FALSE, 0) =>
             /\ cres'[c].kind = "returned"
             /\ Len(history') = Len(history) + 1
    ]_vars

\* ------------------------------------------------- claims: the result set
\* C24: the records of the array a getWindowList call returned have pairwise
\* distinct ids.
C24_IdsDistinctInResult ==
  \A d \in Calls :
    doutcome[d] = "returned" =>
      \A i, j \in 1..Len(dres[d]) : i # j => dres[d][i].id # dres[d][j].id

C26_DiscoveryTerminates ==
  \A d \in Calls :
    (dpc[d] # "idle") ~>
      /\ dpc[d] = "done"
      /\ doutcome[d] \in {"returned", "threw"}
      /\ Cardinality(AllStarts(d)) <= 4

\* A call has returned the array of its fourth strategy while the other
\* call is still waiting for a strategy.
C26_Witness ==
  \E d, e \in Calls :
    /\ Returned(d)
    /\ Cardinality(AllStarts(d)) = 4
    /\ dpc[e] \notin {"idle", "done"}

\* ------------------------------------------------- claims: the window flag
\* C27: every screencapture -l <id> a request has run had a number for its
\* id: never the id of the sentinel record, nor any other text.
C27_WindowFlagOnlyWithWindowId ==
  \A c \in Calls :
    \A i \in 1..Len(fx[c]) :
      ( /\ fx[c][i].ev = "execSync"
        /\ Len(fx[c][i].args) = 3
        /\ fx[c][i].args[1] = "screencapture" ) =>
        IsNumeric(fx[c][i].args[3])

\* C28: while the client has no call in progress, no temp_<ms>.png of a
\* capture_window or capture_region call is in the screenshot directory.
C28_NoTempFileOutlivesCapture ==
  cpc[Client] = "idle" => \A t \in 0..MaxClock : TempPath(t) \notin files

\* ------------------------------------------------- claims: the encoding
\* The encoding that goes with a format.
EncodingOf(format) == IF format = "jpg" THEN "jpeg" ELSE "png"

\* C29: the image of every record of the ring, and of every screenshot a
\* capture returned, is encoded as its format says: PNG for 'png', JPEG for
\* 'jpg'.
C29_FormatMatchesEncoding ==
  /\ \A i \in 1..Len(history) : history[i].enc = EncodingOf(history[i].format)
  /\ \A c \in Calls :
       \A i \in 1..Len(cres[c].screenshot) :
         cres[c].screenshot[i].enc = EncodingOf(cres[c].screenshot[i].format)

\* ------------------------------------------------- claims: applications
\* C30: when the captureWindow that captureApplication delegated to picks a
\* window and runs screencapture, the window it picks is the record that
\* matched the appType filter, and its id is the windowId of the capture.
C30_CapturesDetectedWindow ==
  [][ \A c \in Calls :
        (Dispatches(c) /\ loc[c].detected # <<>> /\ Selected(c) # <<>>) =>
          /\ Selected(c) = loc[c].detected
          /\ cpc'[c] = "winRead" => loc'[c].windowId = loc[c].detected[1].id
    ]_vars

====
